---- MODULE Spec2Model ----
(* Model of the playback-queue controller AudioProvider (AudioContext.tsx,   *)
(* src/unnamed/part_001 lines 175-510) and of the HTMLAudioElement it drives. *)
(* A track is modelled by its id (its src is a function of the id); indexes   *)
(* are 0-based as in the source.                                              *)
EXTENDS Integers, Sequences, FiniteSets, TLC

\* ------------------------------------------------------------------ bounds
NumTracks == 3      \* size of the catalog the track lists are drawn from
MediaLen == 2       \* longest track list in the specifications with playback
TrackDur == 2       \* media duration of every track, in time units
MaxCounted == 2     \* pending listeners are counted up to this many or more

\* --------------------------------------------------------------- constants
Undef == 0          \* JavaScript undefined (an array read out of range)
NoSrc == 0          \* audio.src of a fresh Audio(): the empty string
DefaultVolume == 50 \* useState(0.5), in hundredths

TrackIds == 1..NumTracks

VARIABLES
    tracks, originalTracks, currentTrackIndex, isPlaying, volume,
    currentTime, duration, shuffleMode, repeatMode,      \* React state
    savedTimeRef,                                        \* useRef
    audioSrc, audioPaused, audioTime, audioReady,        \* the audio element
    audioVolume,        \* audio.volume, in hundredths
    audioError,         \* the element failed to load its source (audio.error)
    storage,            \* localStorage item 'audioPlayerState'
    onceListeners,      \* the pending once-listeners, counted by the isPlaying
                        \* value each one captured
    endedRepeat,        \* repeatMode captured by the registered handleEnded
    endedHasNext,       \* hasNextTrack captured by the registered handleEnded
    crashed,            \* an updater threw: the component tree is unmounted
    lastOp, shufflePre, \* history: last operation; the queue and index
                        \* before a shuffle-on, or before a reload
    \* the catalog-loading hook useTracks
    hookTracks, hookIsLoading, hookError,                \* its useState
    hookNames,          \* the trackNames of its last render
    inFlight,           \* the requests whose fetch has not settled
    \* the BottomPlayer component
    isButtonDisabled,   \* its useState
    enableTimers,       \* the pending setTimeout(() => setIsButtonDisabled(false))
    \* the AuthGuard component
    pathname,           \* usePathname()
    isInitializing, dbInitError,    \* useDbInit(): isInitializing, error
    isChecking,         \* its useState
    checksPending,      \* the pathnames captured by the checkOnboarding calls
                        \* still awaiting hasCompletedOnboarding()
    pushesPending,      \* the targets of router.push calls not yet navigated
    onboardingCompleted,    \* what hasCompletedOnboarding() resolves to
    lastCheck           \* history: the last check that settled

reactVars == <<tracks, originalTracks, currentTrackIndex, isPlaying, volume,
               currentTime, duration, shuffleMode, repeatMode>>
audioVars == <<audioSrc, audioPaused, audioTime, audioReady, onceListeners,
               audioVolume, audioError>>
endedVars == <<endedRepeat, endedHasNext>>
hookVars == <<hookTracks, hookIsLoading, hookError, hookNames, inFlight>>
\* the state of the components beside the provider
playerVars == <<isButtonDisabled, enableTimers>>
guardVars == <<pathname, isInitializing, dbInitError, isChecking, checksPending,
               pushesPending, onboardingCompleted, lastCheck>>
besideVars == <<hookVars, playerVars, guardVars>>
providerVars == <<reactVars, savedTimeRef, audioVars, endedVars, crashed,
                  lastOp, shufflePre, storage>>
vars == <<providerVars, besideVars>>

\* ----------------------------------------------------------------- helpers
\* arr[i] with a 0-based index: undefined out of range
At(arr, i) == IF i >= 0 /\ i < Len(arr) THEN arr[i + 1] ELSE Undef

\* arr.filter((_, idx) => idx !== i)
RECURSIVE FilterIndex(_, _)
FilterIndex(arr, i) ==
    IF arr = <<>> THEN <<>>
    ELSE IF i = 0 THEN Tail(arr)
    ELSE <<Head(arr)>> \o FilterIndex(Tail(arr), i - 1)

\* arr.filter(t => t.id !== id)
FilterId(arr, id) == SelectSeq(arr, LAMBDA t : t # id)

\* arr.findIndex(t => t.id === id), 0-based, -1 when absent
FindIndex(arr, id) ==
    IF \E k \in 1..Len(arr) : arr[k] = id
    THEN (CHOOSE k \in 1..Len(arr) :
              arr[k] = id /\ \A m \in 1..(k - 1) : arr[m] # id) - 1
    ELSE -1

\* findIndex dereferences t.id of every element it visits: it throws on an
\* undefined element met before the match
FindIndexThrows(arr, id) ==
    \E k \in 1..Len(arr) :
        arr[k] = Undef /\ \A m \in 1..(k - 1) : arr[m] # id

hasNextTrackOf(t, i) == Len(t) > 1 /\ i < Len(t) - 1
hasPrevTrackOf(t, i) == Len(t) > 1 /\ i > 0
hasNextTrack == hasNextTrackOf(tracks, currentTrackIndex)
hasPrevTrack == hasPrevTrackOf(tracks, currentTrackIndex)

\* The outcomes of Math.random over one shuffle of n elements: for every loop
\* index i (0-based, n-1 down to 1) a j = floor(random * (i + 1)) in 0..i
RandomChoices(n) ==
    IF n <= 1 THEN {<<>>}
    ELSE {r \in [1..(n - 1) -> 0..(n - 1)] : \A i \in 1..(n - 1) : r[i] <= i}

\* the swap written without a temporary: both slots end up holding arr[j]
SwapLossy(arr, i, j) ==
    [k \in 1..Len(arr) |-> IF k = i + 1 THEN arr[j + 1] ELSE arr[k]]

Swap(arr, i, j) ==
    [k \in 1..Len(arr) |->
        IF k = i + 1 THEN arr[j + 1] ELSE IF k = j + 1 THEN arr[i + 1] ELSE arr[k]]

RECURSIVE ShuffleFrom(_, _, _)
ShuffleFrom(arr, i, r) ==
    IF i <= 0 THEN arr ELSE ShuffleFrom(Swap(arr, i, r[i]), i - 1, r)

\* Fisher-Yates, as written
shuffleTracks(trackArray, r) == ShuffleFrom(trackArray, Len(trackArray) - 1, r)

\* the position a seek on an element with metadata ends at: audio.currentTime
\* = x is brought into the seekable range
Clamp(x, lo, hi) == IF x < lo THEN lo ELSE IF x > hi THEN hi ELSE x

\* File names of the catalog, one per track id, as character sequences:
\* every second one contains a space
Letters == <<"a", "b", "c", "d", "e", "f">>
FileName(id) ==
    IF id % 2 = 0 THEN <<Letters[id], " ", "x">> ELSE <<Letters[id]>>

\* track.src = `/tracks/${filename}`
TrackSrc(id) == <<"/">> \o FileName(id)

\* What the audio.src getter returns for an assigned src: the absolute URL,
\* with the characters a URL path cannot hold percent-encoded
RECURSIVE PercentEncode(_)
PercentEncode(s) ==
    IF s = <<>> THEN <<>>
    ELSE (IF Head(s) = " " THEN <<"%", "2", "0">> ELSE <<Head(s)>>)
         \o PercentEncode(Tail(s))

Resolved(src) == <<"h", ":">> \o PercentEncode(src)

\* String.prototype.includes
Includes(hay, needle) ==
    \E k \in 0..(Len(hay) - Len(needle)) :
        SubSeq(hay, k + 1, k + Len(needle)) = needle

\* audio.src.includes(currentTrack.src); src is the id of the track whose
\* src was assigned to the element
SrcIncludes(src, track) ==
    src # NoSrc /\ Includes(Resolved(TrackSrc(src)), TrackSrc(track))

\* ------------------------------------------------------------------ inputs
RECURSIVE SeqsUpTo(_)
SeqsUpTo(n) ==
    IF n = 0 THEN {<<>>}
    ELSE LET prev == SeqsUpTo(n - 1)
         IN  prev \cup {Append(s, t) : s \in {p \in prev : Len(p) = n - 1},
                                        t \in TrackIds}

\* track lists as the callers build them: a filter of the catalog, which
\* keeps the catalog's order and its unique ids (useSearch.ts searchResults)
ListsUpTo(n) ==
    {s \in SeqsUpTo(n) : \A a, b \in 1..Len(s) : a < b => s[a] < s[b]}

TrackLists == ListsUpTo(NumTracks)
MediaLists == ListsUpTo(MediaLen)
\* the lists a track can be selected from: the non-empty ones
PlayLists == MediaLists \ {<<>>}

\* index arguments: every index of the longest list, and one past its end
IndexesUpTo(n) == 0..n

\* ------------------------------------------------------------------- state
\* the listeners added by addEventListener('loadedmetadata', ..., {once:
\* true}) that have not run yet
NoListeners == [b \in BOOLEAN |-> 0]

AddListener(l, captured) ==
    [l EXCEPT ![captured] = IF @ < MaxCounted THEN @ + 1 ELSE @]

Pending(l) == l[TRUE] + l[FALSE]

NoPre == [valid |-> FALSE, q |-> <<>>, i |-> 0]

\* localStorage.getItem('audioPlayerState'): null, a string JSON.parse
\* rejects, or the parsed object
StoredItem(kind, t, i, v, ct, s, r) ==
    [kind |-> kind, tracks |-> t, currentTrackIndex |-> i, volume |-> v,
     currentTime |-> ct, shuffleMode |-> s, repeatMode |-> r]

NoItem == StoredItem("absent", <<>>, 0, 0, 0, FALSE, FALSE)
Unparsable == StoredItem("unparsable", <<>>, 0, 0, 0, FALSE, FALSE)

\* stateToSave
Snapshot(t, o, i, v, ct, s, r) ==
    StoredItem("snapshot", IF Len(o) > 0 THEN o ELSE t, i, v, ct, s, r)

\* the useState / useRef initial values and a fresh Audio()
FirstRender ==
    /\ tracks = <<>>
    /\ originalTracks = <<>>
    /\ currentTrackIndex = 0
    /\ isPlaying = FALSE
    /\ volume = DefaultVolume
    /\ currentTime = 0
    /\ duration = 0
    /\ shuffleMode = FALSE
    /\ repeatMode = FALSE
    /\ savedTimeRef = 0
    /\ audioSrc = NoSrc
    /\ audioPaused = TRUE
    /\ audioTime = 0
    /\ audioReady = FALSE
    /\ onceListeners = NoListeners
    /\ endedRepeat = FALSE
    /\ endedHasNext = FALSE
    /\ audioVolume = DefaultVolume
    /\ audioError = FALSE
    /\ crashed = FALSE
    /\ shufflePre = NoPre

\* error of useTracks: null, and the message set for an empty catalog
NoError == "null"
NoTracksFound == "No tracks found"

\* useTracks(...trackNames) after its first commit: the useState initial
\* values, and the fetch for the names in flight
HookMounted(names) ==
    /\ hookTracks = <<>>
    /\ hookIsLoading = TRUE
    /\ hookError = NoError
    /\ hookNames = names
    /\ inFlight = {names}

\* BottomPlayer after its first commit
PlayerMounted ==
    /\ isButtonDisabled = FALSE
    /\ enableTimers = 0

\* the paths of the application
Paths == {"/", "/onboarding", "/library"}

NoCheck == [path |-> "none", outcome |-> "none"]

\* AuthGuard after its first commit on a path: the database is initializing,
\* so checkOnboarding returned at once
GuardMounted(path, completed) ==
    /\ pathname = path
    /\ isInitializing = TRUE
    /\ dbInitError = NoError
    /\ isChecking = TRUE
    /\ checksPending = {}
    /\ pushesPending = {}
    /\ onboardingCompleted = completed
    /\ lastCheck = NoCheck

\* mounted with nothing in localStorage: the load effect applied nothing
Init ==
    /\ FirstRender
    /\ storage = NoItem
    /\ lastOp = "mount"
    /\ HookMounted({})
    /\ PlayerMounted
    /\ GuardMounted("/", FALSE)

\* ----------------------------------------------------------------- effects
\* What a closure registered by an effect holds: the value of the render in
\* which the effect last ran, and it runs only when a dependency changed
\* an effect with an empty dependency array: registered at mount only
RegisteredAtMount(depsChanged, rendered, captured) == captured

Registered(depsChanged, rendered, captured) ==
    IF depsChanged THEN rendered ELSE captured

\* the guard shared by the track-source and the play/pause effect
InRange(t, i) == Len(t) > 0 /\ i >= 0 /\ i < Len(t)

\* effect on [tracks, originalTracks, currentTrackIndex, volume, currentTime,
\* shuffleMode, repeatMode]: write the snapshot when the queue is not empty
SaveEffect(tracksSet) ==
    LET changed == \/ tracksSet
                   \/ originalTracks' # originalTracks
                   \/ currentTrackIndex' # currentTrackIndex
                   \/ volume' # volume
                   \/ currentTime' # currentTime
                   \/ shuffleMode' # shuffleMode
                   \/ repeatMode' # repeatMode
    IN  storage' =
            IF changed /\ Len(tracks') > 0
            THEN Snapshot(tracks', originalTracks', currentTrackIndex', volume',
                          currentTime', shuffleMode', repeatMode')
            ELSE storage

\* audio.volume accepts 0..1 and throws IndexSizeError otherwise
VolumeAccepted(v) == v >= 0 /\ v <= 100

\* The effects React runs after the render that follows a handler, in the
\* order they are declared, each only when one of its dependencies changed.
\* tracksSet: setTracks was called with a new array; saved, pos:
\* savedTimeRef.current and audio.currentTime as the handler left them.
Effects(tracksSet, saved, pos) ==
    LET currentTrack == At(tracks', currentTrackIndex')
        moved == tracksSet \/ currentTrackIndex' # currentTrackIndex
        load == /\ moved
                /\ InRange(tracks', currentTrackIndex')
                /\ currentTrack # Undef
        playPause == /\ moved \/ isPlaying' # isPlaying
                     /\ InRange(tracks', currentTrackIndex')
    IN  /\ SaveEffect(tracksSet)
        \* effect on [repeatMode]: handleEnded is registered again
        /\ endedRepeat' =
               Registered(repeatMode' # repeatMode, repeatMode', endedRepeat)
        /\ endedHasNext' =
               Registered(repeatMode' # repeatMode,
                          hasNextTrackOf(tracks', currentTrackIndex'), endedHasNext)
        \* effect on [tracks, currentTrackIndex]
        /\ savedTimeRef' =
               IF load
               THEN (IF SrcIncludes(audioSrc, currentTrack) THEN pos ELSE 0)
               ELSE saved
        /\ audioSrc' = IF load THEN currentTrack ELSE audioSrc
        /\ audioReady' = IF load THEN FALSE ELSE audioReady
        /\ audioError' = IF load THEN FALSE ELSE audioError
        /\ audioTime' = IF load THEN 0 ELSE pos
        /\ onceListeners' =
               IF load THEN AddListener(onceListeners, isPlaying')
               ELSE onceListeners
        \* effect on [isPlaying, tracks, currentTrackIndex]; assigning
        \* audio.src pauses the element before it, and play() on an element
        \* whose source failed is rejected and leaves it paused
        /\ audioPaused' =
               IF playPause
               THEN (IF isPlaying' THEN audioError' /\ audioPaused ELSE TRUE)
               ELSE IF load THEN TRUE ELSE audioPaused
        \* audio.volume = volume, in the effect on [repeatMode] and in the
        \* effect on [volume]
        /\ audioVolume' =
               IF (repeatMode' # repeatMode \/ volume' # volume)
                  /\ VolumeAccepted(volume')
               THEN volume' ELSE audioVolume

\* ----------------------------------------------------------------- actions
\* the index restored without the fallback
restoredIndexRaw(originalIndex) == originalIndex

\* originalIndex >= 0 ? originalIndex : 0
restoredIndex(originalIndex) == IF originalIndex >= 0 THEN originalIndex ELSE 0

toggleShuffleModeThrows ==
    /\ shuffleMode
    /\ Len(originalTracks) > 0
    /\ \/ At(tracks, currentTrackIndex) = Undef
       \/ FindIndexThrows(originalTracks, At(tracks, currentTrackIndex))

toggleShuffleMode(r) ==
    /\ ~crashed
    /\ lastOp' = IF shuffleMode THEN "shuffleOff" ELSE "shuffleOn"
    /\ UNCHANGED besideVars
    /\ IF toggleShuffleModeThrows
       THEN /\ crashed' = TRUE
            /\ shufflePre' = NoPre
            /\ UNCHANGED <<reactVars, savedTimeRef, audioVars, endedVars, storage>>
       ELSE
        /\ crashed' = FALSE
        /\ shuffleMode' = ~shuffleMode
        /\ UNCHANGED <<isPlaying, volume, currentTime, duration, repeatMode>>
        /\ IF ~shuffleMode
           THEN LET currentTrack == At(tracks, currentTrackIndex)
                    tracksWithoutCurrent == FilterIndex(tracks, currentTrackIndex)
                IN  /\ originalTracks' =
                           IF Len(originalTracks) = 0 THEN tracks ELSE originalTracks
                    /\ tracks' = <<currentTrack>> \o shuffleTracks(tracksWithoutCurrent, r)
                    /\ currentTrackIndex' = 0
                    /\ shufflePre' = [valid |-> TRUE, q |-> tracks, i |-> currentTrackIndex]
                    /\ Effects(TRUE, savedTimeRef, audioTime)
           ELSE IF Len(originalTracks) > 0
           THEN LET originalIndex ==
                        FindIndex(originalTracks, At(tracks, currentTrackIndex))
                IN  /\ tracks' = originalTracks
                    /\ currentTrackIndex' = restoredIndex(originalIndex)
                    /\ UNCHANGED originalTracks
                    /\ shufflePre' = IF lastOp = "shuffleOn" THEN shufflePre ELSE NoPre
                    /\ Effects(TRUE, savedTimeRef, audioTime)
           ELSE /\ UNCHANGED <<tracks, originalTracks, currentTrackIndex>>
                /\ shufflePre' = IF lastOp = "shuffleOn" THEN shufflePre ELSE NoPre
                /\ Effects(FALSE, savedTimeRef, audioTime)

ToggleShuffleMode ==
    \E r \in (IF shuffleMode THEN {<<>>}
               ELSE RandomChoices(Len(FilterIndex(tracks, currentTrackIndex)))) :
        toggleShuffleMode(r)

toggleRepeatMode ==
    /\ ~crashed
    /\ repeatMode' = ~repeatMode
    /\ lastOp' = "toggleRepeat"
    /\ UNCHANGED besideVars
    /\ shufflePre' = NoPre
    /\ UNCHANGED <<tracks, originalTracks, currentTrackIndex, isPlaying, volume,
                   currentTime, duration, shuffleMode, crashed>>
    /\ Effects(FALSE, savedTimeRef, audioTime)

\* fresh: whether the array handed to setTracks is a new object; the caller's
\* trackList may be the very array already held
playTrack(track, hasList, trackList, r, fresh) ==
    /\ ~crashed
    /\ lastOp' = "playTrack"
    /\ UNCHANGED besideVars
    /\ shufflePre' = NoPre
    /\ IF hasList
       THEN IF shuffleMode
            THEN LET tracksWithoutSelected == FilterId(trackList, track)
                 IN  /\ originalTracks' = trackList
                     /\ tracks' = <<track>> \o shuffleTracks(tracksWithoutSelected, r)
                     /\ currentTrackIndex' = 0
            ELSE LET newIndex == FindIndex(trackList, track)
                 IN  /\ tracks' = trackList
                     /\ currentTrackIndex' = IF newIndex >= 0 THEN newIndex ELSE 0
                     /\ UNCHANGED originalTracks
       ELSE /\ tracks' = <<track>>
            /\ originalTracks' = <<track>>
            /\ currentTrackIndex' = 0
    /\ isPlaying' = TRUE
    /\ UNCHANGED <<volume, currentTime, duration, shuffleMode, repeatMode, crashed>>
    /\ Effects(fresh, savedTimeRef, audioTime)

PlayTrack(lists) ==
    \E track \in TrackIds, hasList \in BOOLEAN, trackList \in lists :
        /\ ~hasList => trackList = <<>>
        /\ \E r \in (IF hasList /\ shuffleMode
                      THEN RandomChoices(Len(FilterId(trackList, track)))
                      ELSE {<<>>}) :
           \E fresh \in (IF hasList /\ ~shuffleMode /\ trackList = tracks
                          THEN BOOLEAN ELSE {TRUE}) :
               playTrack(track, hasList, trackList, r, fresh)

playTrackAtIndex(index, trackList, r, fresh) ==
    /\ ~crashed
    /\ lastOp' = "playTrackAtIndex"
    /\ UNCHANGED besideVars
    /\ shufflePre' = NoPre
    /\ IF shuffleMode
       THEN LET selectedTrack == At(trackList, index)
                tracksWithoutSelected == FilterIndex(trackList, index)
            IN  /\ originalTracks' = trackList
                /\ tracks' = <<selectedTrack>> \o shuffleTracks(tracksWithoutSelected, r)
                /\ currentTrackIndex' = 0
       ELSE /\ tracks' = trackList
            /\ currentTrackIndex' = index
            /\ UNCHANGED originalTracks
    /\ isPlaying' = TRUE
    /\ UNCHANGED <<volume, currentTime, duration, shuffleMode, repeatMode, crashed>>
    /\ Effects(fresh, savedTimeRef, audioTime)

PlayTrackAtIndex(lists, indexes) ==
    \E index \in indexes, trackList \in lists :
    \E r \in (IF shuffleMode
               THEN RandomChoices(Len(FilterIndex(trackList, index)))
               ELSE {<<>>}) :
    \E fresh \in (IF ~shuffleMode /\ trackList = tracks THEN BOOLEAN ELSE {TRUE}) :
        playTrackAtIndex(index, trackList, r, fresh)

togglePlayPauseCall ==
    /\ ~crashed
    /\ isPlaying' = ~isPlaying
    /\ lastOp' = "togglePlayPause"
    /\ shufflePre' = NoPre
    /\ UNCHANGED <<tracks, originalTracks, currentTrackIndex, volume, currentTime,
                   duration, shuffleMode, repeatMode, crashed>>
    /\ Effects(FALSE, savedTimeRef, audioTime)

togglePlayPause == togglePlayPauseCall /\ UNCHANGED besideVars

nextTrackMoves(t, i, repeat) == hasNextTrackOf(t, i) \/ (repeat /\ Len(t) > 0)

\* nextTrack without the repeat branch
nextTrackIndexNoWrap(t, i, repeat) ==
    IF hasNextTrackOf(t, i) THEN i + 1 ELSE i

\* nextTrack wrapping whether or not repeat is on
nextTrackIndexAlwaysWrap(t, i, repeat) ==
    IF hasNextTrackOf(t, i) THEN i + 1
    ELSE IF Len(t) > 0 THEN 0
    ELSE i

nextTrackIndex(t, i, repeat) ==
    IF hasNextTrackOf(t, i) THEN i + 1
    ELSE IF repeat /\ Len(t) > 0 THEN 0
    ELSE i

\* savedTimeRef.current after nextTrack / prevTrack: reset in the two
\* branches that move
\* savedTimeRef.current = 0 hoisted out of the branches
movedSavedTimeAlways(moves, saved) == 0

movedSavedTime(moves, saved) == IF moves THEN 0 ELSE saved

nextTrackCall ==
    /\ ~crashed
    /\ lastOp' = "nextTrack"
    /\ shufflePre' = NoPre
    /\ UNCHANGED <<tracks, originalTracks, isPlaying, volume, currentTime,
                   duration, shuffleMode, repeatMode, crashed>>
    /\ currentTrackIndex' = nextTrackIndex(tracks, currentTrackIndex, repeatMode)
    /\ Effects(FALSE,
               movedSavedTime(nextTrackMoves(tracks, currentTrackIndex, repeatMode),
                              savedTimeRef),
               audioTime)

nextTrack == nextTrackCall /\ UNCHANGED besideVars

prevTrackMoves(t, i, repeat) == hasPrevTrackOf(t, i) \/ (repeat /\ Len(t) > 0)

prevTrackIndex(t, i, repeat) ==
    IF hasPrevTrackOf(t, i) THEN i - 1
    ELSE IF repeat /\ Len(t) > 0 THEN Len(t) - 1
    ELSE i

prevTrackCall ==
    /\ ~crashed
    /\ lastOp' = "prevTrack"
    /\ shufflePre' = NoPre
    /\ UNCHANGED <<tracks, originalTracks, isPlaying, volume, currentTime,
                   duration, shuffleMode, repeatMode, crashed>>
    /\ currentTrackIndex' = prevTrackIndex(tracks, currentTrackIndex, repeatMode)
    /\ Effects(FALSE,
               movedSavedTime(prevTrackMoves(tracks, currentTrackIndex, repeatMode),
                              savedTimeRef),
               audioTime)

prevTrack == prevTrackCall /\ UNCHANGED besideVars

\* the raw useState setter handed out as setVolume
setVolume(value) ==
    /\ ~crashed
    /\ lastOp' = "setVolume"
    /\ UNCHANGED besideVars
    /\ shufflePre' = NoPre
    /\ volume' = value
    /\ UNCHANGED <<tracks, originalTracks, currentTrackIndex, isPlaying,
                   currentTime, duration, shuffleMode, repeatMode>>
    \* the effect on [volume] throws on a value audio.volume rejects
    /\ crashed' = ~VolumeAccepted(value)
    /\ Effects(FALSE, savedTimeRef, audioTime)

\* volumes handed to setVolume, in hundredths: -1, 0, 1 and 2
VolumeInputs == {-100, 0, 100, 200}

SetVolume == \E value \in VolumeInputs : setVolume(value)

\* audio.currentTime after the assignment audio.currentTime = time: a seek,
\* or without metadata the default playback start position
SeekPosition(time) == IF audioReady THEN Clamp(time, 0, TrackDur) ELSE time

seekTo(time) ==
    /\ ~crashed
    /\ lastOp' = "seekTo"
    /\ UNCHANGED besideVars
    /\ shufflePre' = NoPre
    /\ currentTime' = time
    /\ UNCHANGED <<tracks, originalTracks, currentTrackIndex, isPlaying, volume,
                   duration, shuffleMode, repeatMode, crashed>>
    /\ Effects(FALSE, savedTimeRef, SeekPosition(time))

\* times handed to seekTo: before the start, inside, and past the end
SeekTimes == {-1, 0, 1, TrackDur + 1}

SeekTo == \E time \in SeekTimes : seekTo(time)

\* ------------------------------------------------------- mount and reload
\* parsedState.x || d
OrDefault(x, d) == IF x = 0 THEN d ELSE x

\* the load effect applying whatever object the item parses to
loadAppliesUnguarded(s) == s.kind = "snapshot"

\* savedState && parsedState.tracks && parsedState.tracks.length > 0
loadApplies(s) == s.kind = "snapshot" /\ Len(s.tracks) > 0

\* The effects of the first commit: the load effect reads localStorage and
\* sets state; the other effects of that commit see the initial state
\* (which is the state FirstRender describes); then the effects of the
\* render with the loaded state run.
Mount ==
    /\ lastOp = "render"
    /\ lastOp' = "mount"
    /\ UNCHANGED besideVars
    /\ shufflePre' = shufflePre
    /\ IF loadApplies(storage)
       THEN /\ tracks' = storage.tracks
            /\ originalTracks' = storage.tracks
            /\ currentTrackIndex' = OrDefault(storage.currentTrackIndex, 0)
            /\ volume' = OrDefault(storage.volume, DefaultVolume)
            /\ shuffleMode' = storage.shuffleMode
            /\ repeatMode' = storage.repeatMode
       ELSE UNCHANGED <<tracks, originalTracks, currentTrackIndex, volume,
                        shuffleMode, repeatMode>>
    /\ UNCHANGED <<isPlaying, currentTime, duration>>
    /\ crashed' = ~VolumeAccepted(volume')
    /\ Effects(loadApplies(storage),
               IF loadApplies(storage) THEN OrDefault(storage.currentTime, 0)
               ELSE savedTimeRef,
               audioTime)

\* the page is reloaded: a new provider is rendered, localStorage is kept
Reload ==
    /\ lastOp # "render"
    /\ tracks' = <<>>
    /\ originalTracks' = <<>>
    /\ currentTrackIndex' = 0
    /\ isPlaying' = FALSE
    /\ volume' = DefaultVolume
    /\ currentTime' = 0
    /\ duration' = 0
    /\ shuffleMode' = FALSE
    /\ repeatMode' = FALSE
    /\ savedTimeRef' = 0
    /\ audioSrc' = NoSrc
    /\ audioPaused' = TRUE
    /\ audioTime' = 0
    /\ audioReady' = FALSE
    /\ onceListeners' = NoListeners
    /\ endedRepeat' = FALSE
    /\ endedHasNext' = FALSE
    /\ audioVolume' = DefaultVolume
    /\ audioError' = FALSE
    /\ crashed' = FALSE
    /\ shufflePre' =
        IF /\ ~crashed
           /\ Len(tracks) > 0
           /\ storage = Snapshot(tracks, originalTracks, currentTrackIndex,
                                 volume, currentTime, shuffleMode, repeatMode)
        THEN [valid |-> TRUE, q |-> tracks, i |-> currentTrackIndex]
        ELSE NoPre
    /\ lastOp' = "render"
    /\ UNCHANGED besideVars
    /\ UNCHANGED storage

\* --------------------------------------------------------- media events
\* loadedmetadata: handleLoadedMetadata, then every pending once-listener
LoadedMetadata ==
    /\ ~crashed
    /\ audioSrc # NoSrc
    /\ ~audioReady
    /\ ~audioError
    /\ audioReady' = TRUE
    /\ duration' = TrackDur
    /\ audioTime' = Clamp(IF Pending(onceListeners) > 0 THEN savedTimeRef
                          ELSE audioTime,
                          0, TrackDur)
    /\ audioPaused' =
           IF onceListeners[TRUE] > 0 THEN FALSE ELSE audioPaused
    /\ onceListeners' = NoListeners
    /\ lastOp' = "loadedmetadata"
    /\ UNCHANGED besideVars
    /\ shufflePre' = NoPre
    /\ UNCHANGED <<tracks, originalTracks, currentTrackIndex, isPlaying, volume,
                   currentTime, shuffleMode, repeatMode, savedTimeRef, audioSrc,
                   audioVolume, audioError, endedVars, crashed, storage>>

\* playback advances one unit short of the end; timeupdate: handleTimeUpdate
TimeUpdate ==
    /\ ~crashed
    /\ audioReady
    /\ ~audioPaused
    /\ audioTime + 1 < TrackDur
    /\ audioTime' = audioTime + 1
    /\ currentTime' = audioTime + 1
    /\ lastOp' = "timeupdate"
    /\ UNCHANGED besideVars
    /\ shufflePre' = NoPre
    /\ UNCHANGED <<tracks, originalTracks, currentTrackIndex, isPlaying, volume,
                   duration, shuffleMode, repeatMode, savedTimeRef, audioSrc,
                   audioPaused, audioReady, onceListeners, audioVolume,
                   audioError, endedVars, crashed>>
    /\ SaveEffect(FALSE)

\* timeupdate after a seek: handleTimeUpdate reads the position the element
\* settled at
SeekedTimeUpdate ==
    /\ ~crashed
    /\ audioReady
    /\ currentTime # audioTime
    /\ currentTime' = audioTime
    /\ lastOp' = "timeupdate"
    /\ UNCHANGED besideVars
    /\ shufflePre' = NoPre
    /\ UNCHANGED <<tracks, originalTracks, currentTrackIndex, isPlaying, volume,
                   duration, shuffleMode, repeatMode, savedTimeRef, audioVars,
                   endedVars, crashed>>
    /\ SaveEffect(FALSE)

\* The source cannot be loaded: audio.error is set, loadedmetadata never
\* fires, and the promises of the play() calls made since the load are
\* rejected; their catch handlers log the error and do nothing else.
LoadFailed ==
    /\ ~crashed
    /\ audioSrc # NoSrc
    /\ ~audioReady
    /\ ~audioError
    /\ audioError' = TRUE
    /\ lastOp' = "loadFailed"
    /\ UNCHANGED besideVars
    /\ shufflePre' = NoPre
    /\ UNCHANGED <<reactVars, savedTimeRef, audioSrc, audioPaused, audioTime,
                   audioReady, onceListeners, audioVolume, endedVars, crashed,
                   storage>>

\* The registered handleEnded closes over the render in which the effect on
\* [repeatMode] last ran: repeatMode, hasNextTrack and nextTrack (whose own
\* hasNextTrack is the same render's) are that render's.
handleEnded ==
    IF endedRepeat
    THEN /\ audioTime' = 0
         /\ audioPaused' = FALSE
         /\ UNCHANGED <<tracks, originalTracks, currentTrackIndex, isPlaying,
                        savedTimeRef, audioSrc, audioReady, onceListeners,
                        audioVolume, audioError, endedVars>>
         /\ SaveEffect(FALSE)
    ELSE IF endedHasNext
    THEN /\ currentTrackIndex' = currentTrackIndex + 1
         /\ UNCHANGED <<tracks, originalTracks, isPlaying>>
         /\ Effects(FALSE, 0, TrackDur)
    ELSE /\ isPlaying' = FALSE
         /\ UNCHANGED <<tracks, originalTracks, currentTrackIndex>>
         /\ Effects(FALSE, savedTimeRef, TrackDur)

\* playback reaches the end of the media: a last timeupdate, then ended
Ended ==
    /\ ~crashed
    /\ audioReady
    /\ ~audioPaused
    /\ audioTime < TrackDur
    /\ currentTime' = TrackDur
    /\ lastOp' = "ended"
    /\ UNCHANGED besideVars
    /\ shufflePre' = NoPre
    /\ UNCHANGED <<volume, duration, shuffleMode, repeatMode, crashed>>
    /\ handleEnded

\* ------------------------------------------------------ useTracks (hook)
\* the names a page passes to useTracks; none stands for the whole catalog
NameSets == SUBSET (1..MediaLen)

\* GET /api/tracks: the files of the directory, those named when names are
\* given
CatalogFilter(names) ==
    CHOOSE s \in TrackLists :
        \A t \in TrackIds :
            (\E k \in 1..Len(s) : s[k] = t) <=> (names = {} \/ t \in names)

\* what a request can be answered with: the matching files, or nothing when
\* the directory holds none of them
Responses(names) == {CatalogFilter(names), <<>>}

\* what the try block can throw: the Error for a response that is not ok, the
\* TypeError of a failed fetch, a value that is no Error
Failures ==
    {[isError |-> TRUE, message |-> "Failed to fetch tracks: 500"],
     [isError |-> TRUE, message |-> "Failed to fetch"],
     [isError |-> FALSE, message |-> "aborted"]}

\* err instanceof Error ? err.message : 'Unknown error fetching tracks'
errorMessage(err) ==
    IF err.isError THEN err.message ELSE "Unknown error fetching tracks"

\* isLoading with setIsLoading(false) at the end of the try block only
settledLoadingNoFinally(failed, loading) == IF failed THEN loading ELSE FALSE

\* finally { setIsLoading(false) }
settledLoading(failed, loading) == FALSE

\* the page renders the hook with other names: the effect keyed on
\* trackNames.join(',') runs again
Refetch(names) ==
    /\ names # hookNames
    /\ hookNames' = names
    /\ hookIsLoading' = TRUE
    /\ inFlight' = inFlight \cup {names}
    /\ UNCHANGED <<hookTracks, hookError, providerVars, playerVars, guardVars>>

FetchSucceeds(req, data) ==
    /\ req \in inFlight
    /\ inFlight' = inFlight \ {req}
    /\ IF Len(data) > 0
       THEN hookTracks' = data /\ UNCHANGED hookError
       ELSE hookError' = NoTracksFound /\ UNCHANGED hookTracks
    /\ hookIsLoading' = settledLoading(FALSE, hookIsLoading)
    /\ UNCHANGED <<hookNames, providerVars, playerVars, guardVars>>

FetchFails(req, err) ==
    /\ req \in inFlight
    /\ inFlight' = inFlight \ {req}
    /\ hookError' = errorMessage(err)
    /\ hookIsLoading' = settledLoading(TRUE, hookIsLoading)
    /\ UNCHANGED <<hookTracks, hookNames, providerVars, playerVars, guardVars>>

NextHook ==
    \/ \E names \in NameSets : Refetch(names)
    \/ \E req \in NameSets : \E data \in Responses(req) : FetchSucceeds(req, data)
    \/ \E req \in NameSets : \E err \in Failures : FetchFails(req, err)

InitHook ==
    /\ FirstRender
    /\ storage = NoItem
    /\ lastOp = "mount"
    /\ \E names \in NameSets : HookMounted(names)
    /\ PlayerMounted
    /\ GuardMounted("/", FALSE)

SpecHook == InitHook /\ [][NextHook]_vars

\* ------------------------------------------------------------ BottomPlayer
\* isPlayerVisible once the effect keyed on tracks has run
isPlayerVisible == Len(tracks) > 0

\* the component renders its controls: it returns null when the player is
\* hidden, there are no tracks, or tracks[currentTrackIndex] is undefined
PlayerRendered ==
    /\ ~crashed
    /\ isPlayerVisible
    /\ Len(tracks) > 0
    /\ At(tracks, currentTrackIndex) # Undef

hasShuffle == Len(tracks) > 1

\* the next / previous button is not disabled and carries its onClick
NextButtonEnabled == hasNextTrack /\ ~isButtonDisabled
PrevButtonEnabled == hasPrevTrack /\ ~isButtonDisabled

\* a click on the next button
handleNextTrack ==
    /\ PlayerRendered
    /\ NextButtonEnabled
    /\ ~(isButtonDisabled \/ ~hasNextTrack)
    /\ isButtonDisabled' = TRUE
    /\ nextTrackCall
    /\ enableTimers' = enableTimers + 1
    /\ UNCHANGED <<hookVars, guardVars>>

\* a click on the previous button
handlePrevTrack ==
    /\ PlayerRendered
    /\ PrevButtonEnabled
    /\ ~(isButtonDisabled \/ ~hasPrevTrack)
    /\ isButtonDisabled' = TRUE
    /\ prevTrackCall
    /\ enableTimers' = enableTimers + 1
    /\ UNCHANGED <<hookVars, guardVars>>

\* a click on the play/pause button
handlePlayPauseToggle ==
    /\ PlayerRendered
    /\ ~isButtonDisabled
    /\ isButtonDisabled' = TRUE
    /\ togglePlayPauseCall
    /\ enableTimers' = enableTimers + 1
    /\ UNCHANGED <<hookVars, guardVars>>

\* a click on the shuffle button
handleShuffleToggle ==
    /\ PlayerRendered
    /\ hasShuffle
    /\ ToggleShuffleMode

\* a click on the repeat toggle
handleRepeatToggle ==
    /\ PlayerRendered
    /\ toggleRepeatMode

\* the 300 ms timer set by a click handler fires
EnableTimeout ==
    /\ enableTimers > 0
    /\ enableTimers' = enableTimers - 1
    /\ isButtonDisabled' = FALSE
    /\ UNCHANGED <<providerVars, hookVars, guardVars>>

\* a queue selected elsewhere on the page, then the controls of the player
NextPlayer ==
    \/ PlayTrackAtIndex(PlayLists, IndexesUpTo(MediaLen))
    \/ handleNextTrack
    \/ handlePrevTrack
    \/ handlePlayPauseToggle
    \/ handleShuffleToggle
    \/ handleRepeatToggle
    \/ EnableTimeout

SpecPlayer == Init /\ [][NextPlayer]_vars

\* --------------------------------------------------------------- AuthGuard
\* what the caught value of a failed check is logged as
CheckErrors == {"Error checking onboarding status"}

\* what useDbInit can end with: no error, or an error message
DbInitOutcomes == {NoError, "init failed"}

\* the component returns its children: neither the spinner branch nor the
\* error branch is taken
ChildrenRendered ==
    /\ ~(isInitializing \/ isChecking)
    /\ dbInitError = NoError

\* useDbInit finishes: isInitializing turns false, so the effect runs again
\* and checkOnboarding awaits hasCompletedOnboarding()
DbInitSettles(err) ==
    /\ isInitializing
    /\ isInitializing' = FALSE
    /\ dbInitError' = err
    /\ checksPending' = checksPending \cup {pathname}
    /\ UNCHANGED <<pathname, isChecking, pushesPending, onboardingCompleted,
                   lastCheck>>
    /\ UNCHANGED <<providerVars, hookVars, playerVars>>

\* the target checkOnboarding pushes, for the pathname its closure holds
pushTarget(path, completed) ==
    IF ~completed /\ path # "/onboarding" THEN {"/onboarding"}
    ELSE IF completed /\ path = "/onboarding" THEN {"/"}
    ELSE {}

\* hasCompletedOnboarding() resolves for the check started on path
CheckResolves(path) ==
    /\ path \in checksPending
    /\ checksPending' = checksPending \ {path}
    /\ pushesPending' = pushesPending \cup pushTarget(path, onboardingCompleted)
    /\ isChecking' = FALSE
    /\ lastCheck' = [path |-> path, outcome |-> "resolved"]
    /\ UNCHANGED <<pathname, isInitializing, dbInitError, onboardingCompleted>>
    /\ UNCHANGED <<providerVars, hookVars, playerVars>>

\* hasCompletedOnboarding() rejects: the catch block logs, finally runs
CheckThrows(path, err) ==
    /\ path \in checksPending
    /\ checksPending' = checksPending \ {path}
    /\ isChecking' = FALSE
    /\ lastCheck' = [path |-> path, outcome |-> "threw"]
    /\ UNCHANGED <<pathname, isInitializing, dbInitError, pushesPending,
                   onboardingCompleted>>
    /\ UNCHANGED <<providerVars, hookVars, playerVars>>

\* the pathname changes: the effect keyed on pathname starts a new check
\* unless the database is still initializing
pathnameChanges(target) ==
    /\ pathname' = target
    /\ checksPending' =
            IF target # pathname /\ ~isInitializing
            THEN checksPending \cup {target} ELSE checksPending

\* a router.push made by a check takes effect
Navigated(target) ==
    /\ target \in pushesPending
    /\ pushesPending' = pushesPending \ {target}
    /\ pathnameChanges(target)
    /\ UNCHANGED <<isInitializing, dbInitError, isChecking, onboardingCompleted,
                   lastCheck>>
    /\ UNCHANGED <<providerVars, hookVars, playerVars>>

\* the user follows a link of the rendered children
LinkFollowed(target) ==
    /\ ChildrenRendered
    /\ target # pathname
    /\ pathnameChanges(target)
    /\ UNCHANGED <<isInitializing, dbInitError, isChecking, pushesPending,
                   onboardingCompleted, lastCheck>>
    /\ UNCHANGED <<providerVars, hookVars, playerVars>>

\* the user finishes the onboarding page
OnboardingDone ==
    /\ ChildrenRendered
    /\ pathname = "/onboarding"
    /\ ~onboardingCompleted
    /\ onboardingCompleted' = TRUE
    /\ UNCHANGED <<pathname, isInitializing, dbInitError, isChecking,
                   checksPending, pushesPending, lastCheck>>
    /\ UNCHANGED <<providerVars, hookVars, playerVars>>

NextGuard ==
    \/ \E err \in DbInitOutcomes : DbInitSettles(err)
    \/ \E path \in Paths : CheckResolves(path)
    \/ \E path \in Paths : \E err \in CheckErrors : CheckThrows(path, err)
    \/ \E target \in Paths : Navigated(target)
    \/ \E target \in Paths : LinkFollowed(target)
    \/ OnboardingDone

InitGuard ==
    /\ FirstRender
    /\ storage = NoItem
    /\ lastOp = "mount"
    /\ HookMounted({})
    /\ PlayerMounted
    /\ \E path \in Paths : \E completed \in BOOLEAN : GuardMounted(path, completed)

SpecGuard == InitGuard /\ [][NextGuard]_vars

\* ------------------------------------------------------------ specification
\* the queue operations and the media events of playback
Next ==
    \/ PlayTrack(MediaLists)
    \/ PlayTrackAtIndex(MediaLists, IndexesUpTo(MediaLen))
    \/ ToggleShuffleMode
    \/ toggleRepeatMode
    \/ togglePlayPause
    \/ nextTrack
    \/ prevTrack
    \/ LoadedMetadata
    \/ TimeUpdate
    \/ Ended

Spec == Init /\ [][Next]_vars

\* the operations on the queue, before any media event arrives
NextQueue ==
    \/ PlayTrack(TrackLists)
    \/ PlayTrackAtIndex(TrackLists, IndexesUpTo(NumTracks))
    \/ ToggleShuffleMode
    \/ toggleRepeatMode
    \/ nextTrack
    \/ prevTrack

SpecQueue == Init /\ [][NextQueue]_vars

\* playback of a non-empty queue loaded by playTrackAtIndex, shuffle left off
NextMedia ==
    \/ PlayTrackAtIndex(PlayLists, IndexesUpTo(MediaLen))
    \/ toggleRepeatMode
    \/ togglePlayPause
    \/ nextTrack
    \/ prevTrack
    \/ LoadedMetadata
    \/ TimeUpdate
    \/ Ended

SpecMedia == Init /\ [][NextMedia]_vars

\* seeking in a queue loaded by playTrackAtIndex
NextSeek ==
    \/ PlayTrackAtIndex(PlayLists, IndexesUpTo(MediaLen))
    \/ togglePlayPause
    \/ SeekTo
    \/ LoadedMetadata
    \/ TimeUpdate
    \/ SeekedTimeUpdate

SpecSeek == Init /\ [][NextSeek]_vars

\* the audio element loading its source, or failing to, under queue changes
NextLoad ==
    \/ PlayTrackAtIndex(PlayLists, IndexesUpTo(MediaLen))
    \/ ToggleShuffleMode
    \/ togglePlayPause
    \/ LoadedMetadata
    \/ LoadFailed
    \/ TimeUpdate

SpecLoad == Init /\ [][NextLoad]_vars

\* what localStorage may hold when the provider is first rendered
StoredVolumes == {0, 100}
StoredTimes == {1}
\* nothing, text that is not JSON, an object without tracks whose other
\* fields are set, and snapshots as the save effect writes them
StoredValues ==
    {NoItem, Unparsable} \cup
    {StoredItem("snapshot", <<>>, i, v, ct, TRUE, TRUE) :
        i \in {MediaLen}, v \in StoredVolumes, ct \in StoredTimes} \cup
    {StoredItem("snapshot", t, i, v, ct, s, FALSE) :
        t \in PlayLists, i \in IndexesUpTo(MediaLen), v \in StoredVolumes,
        ct \in StoredTimes, s \in BOOLEAN}

\* first render, before the effects of the first commit
InitStore ==
    /\ FirstRender
    /\ storage \in StoredValues
    /\ lastOp = "render"
    /\ HookMounted({})
    /\ PlayerMounted
    /\ GuardMounted("/", FALSE)

\* sessions: mount from localStorage, operate, reload
NextStore ==
    \/ Mount
    \/ Reload
    \/ lastOp # "render" /\ PlayTrackAtIndex(PlayLists, IndexesUpTo(MediaLen))
    \/ lastOp # "render" /\ ToggleShuffleMode
    \/ lastOp # "render" /\ toggleRepeatMode
    \/ lastOp # "render" /\ SetVolume

SpecStore == InitStore /\ [][NextStore]_vars

\* ------------------------------------------------------------------ claims
Count(arr, t) == Cardinality({k \in 1..Len(arr) : arr[k] = t})

\* the same tracks with the same multiplicity
SameTracks(a, b) == \A t \in TrackIds \cup {Undef} : Count(a, t) = Count(b, t)

\* C1: in every state reached by playTrack / playTrackAtIndex with a track
\* list, nextTrack, prevTrack and toggleShuffleMode, a non-empty queue has
\* 0 <= currentTrackIndex < tracks.length.
C1_IndexInRange ==
    Len(tracks) > 0 =>
        currentTrackIndex >= 0 /\ currentTrackIndex < Len(tracks)

\* C2: toggleShuffleMode (on) followed immediately by toggleShuffleMode (off),
\* from a non-empty queue with shuffle off, restores the queue order that
\* existed before the pair and makes the track that was current before the
\* pair the current one again.
C2_ShuffleRoundTrip ==
    (/\ lastOp = "shuffleOff"
     /\ shufflePre.valid
     /\ InRange(shufflePre.q, shufflePre.i)) =>
        /\ ~crashed
        /\ tracks = shufflePre.q
        /\ At(tracks, currentTrackIndex) = At(shufflePre.q, shufflePre.i)

\* C3: enabling shuffle on a non-empty queue with a valid current index puts
\* the previously current track at index 0, sets currentTrackIndex to 0,
\* keeps the length, and keeps every track of the previous queue exactly as
\* often as before, whatever the random source yields.
C3_ShufflePinsCurrent ==
    (/\ lastOp = "shuffleOn"
     /\ InRange(shufflePre.q, shufflePre.i)) =>
        /\ shuffleMode
        /\ currentTrackIndex = 0
        /\ At(tracks, 0) = At(shufflePre.q, shufflePre.i)
        /\ Len(tracks) = Len(shufflePre.q)
        /\ SameTracks(tracks, shufflePre.q)

\* C3 witness: shuffle was enabled on a queue of three tracks and the random
\* source reordered the two that were not current
C3_Witness ==
    /\ lastOp = "shuffleOn"
    /\ InRange(shufflePre.q, shufflePre.i)
    /\ Len(shufflePre.q) = 3
    /\ shufflePre.i = 1
    /\ tracks # <<At(shufflePre.q, 1)>> \o FilterIndex(shufflePre.q, 1)

\* C9: whenever originalTracks is non-empty it holds exactly the tracks of the
\* current queue, same ids and same multiplicity (stated for a non-empty
\* queue with a valid index: replacing the queue leaves no originalTracks of
\* an earlier queue).
C9_OriginalMatchesQueue ==
    (Len(originalTracks) > 0 /\ InRange(tracks, currentTrackIndex)) =>
        SameTracks(originalTracks, tracks)

AtLastIndex ==
    InRange(tracks, currentTrackIndex) /\ currentTrackIndex = Len(tracks) - 1
AtFirstIndex ==
    InRange(tracks, currentTrackIndex) /\ currentTrackIndex = 0

\* nextTrack / prevTrack at its boundary with repeatMode off
BoundaryStep ==
    /\ ~repeatMode
    /\ \/ lastOp' = "nextTrack" /\ AtLastIndex
       \/ lastOp' = "prevTrack" /\ AtFirstIndex

\* C4: an ended event with repeatMode off decides on the queue and index that
\* are current when it is processed: not at the last index, the index
\* advances by one; at the last index, it stays and isPlaying becomes false.
C4_EndedUsesCurrentQueue ==
    [][(/\ lastOp' = "ended"
        /\ ~repeatMode
        /\ InRange(tracks, currentTrackIndex)) =>
            IF currentTrackIndex < Len(tracks) - 1
            THEN currentTrackIndex' = currentTrackIndex + 1
            ELSE currentTrackIndex' = currentTrackIndex /\ ~isPlaying']_vars

\* C5: with repeatMode on, an ended event restarts the same track: index and
\* queue unchanged, source position back to 0, source playing, isPlaying not
\* touched, also when a next track exists.
C5_EndedRepeatRestarts ==
    [][(lastOp' = "ended" /\ repeatMode) =>
            /\ currentTrackIndex' = currentTrackIndex
            /\ tracks' = tracks
            /\ audioSrc' = audioSrc
            /\ audioTime' = 0
            /\ ~audioPaused'
            /\ isPlaying' = isPlaying]_vars

\* C5 witness: the track ended with repeat on while a next track existed, and
\* it plays again from 0
C5_Witness ==
    /\ lastOp = "ended"
    /\ repeatMode
    /\ InRange(tracks, currentTrackIndex)
    /\ hasNextTrack
    /\ isPlaying
    /\ audioTime = 0
    /\ ~audioPaused

\* C6: with a valid index, nextTrack at the last index with repeatMode on
\* goes to 0 and prevTrack at index 0 with repeatMode on goes to the last
\* index; away from that boundary they move by +1 / -1 whatever repeatMode is.
C6_NextPrevMove ==
    [][/\ (lastOp' = "nextTrack" /\ InRange(tracks, currentTrackIndex)) =>
            IF currentTrackIndex = Len(tracks) - 1
            THEN repeatMode => currentTrackIndex' = 0
            ELSE currentTrackIndex' = currentTrackIndex + 1
       /\ (lastOp' = "prevTrack" /\ InRange(tracks, currentTrackIndex)) =>
            IF currentTrackIndex = 0
            THEN repeatMode => currentTrackIndex' = Len(tracks) - 1
            ELSE currentTrackIndex' = currentTrackIndex - 1]_vars

\* C6 witness: nextTrack wrapped a queue of three tracks back to index 0
C6_Witness ==
    /\ lastOp = "nextTrack"
    /\ repeatMode
    /\ Len(tracks) = 3
    /\ currentTrackIndex = 0

\* C7: with repeatMode off, nextTrack at the last index and prevTrack at
\* index 0 leave currentTrackIndex, the queue and isPlaying unchanged; no
\* nextTrack / prevTrack ever changes isPlaying.
C7_BoundaryNoOp ==
    [][/\ BoundaryStep =>
            UNCHANGED <<currentTrackIndex, tracks, originalTracks, isPlaying>>
       /\ lastOp' \in {"nextTrack", "prevTrack"} => isPlaying' = isPlaying]_vars

\* C7 witness: nextTrack was called on a playing one-track queue, repeat off
C7_Witness ==
    /\ lastOp = "nextTrack"
    /\ ~repeatMode
    /\ Len(tracks) = 1
    /\ currentTrackIndex = 0
    /\ isPlaying

\* C8 as stated: a nextTrack / prevTrack that resolves to NoOp sets isPlaying
\* to false, stays on the current track and does not reset the position.
C8_NoOpStopsPlayback ==
    [][BoundaryStep =>
            /\ ~isPlaying'
            /\ currentTrackIndex' = currentTrackIndex
            /\ audioTime' = audioTime]_vars

\* C8 amended: a nextTrack / prevTrack that resolves to NoOp leaves isPlaying
\* as it was, stays on the current track and resets no playback position.
C8_NoOpKeepsPlayback ==
    [][BoundaryStep =>
            /\ isPlaying' = isPlaying
            /\ currentTrackIndex' = currentTrackIndex
            /\ audioTime' = audioTime
            /\ currentTime' = currentTime
            /\ savedTimeRef' = savedTimeRef
            /\ audioSrc' = audioSrc
            /\ audioPaused' = audioPaused]_vars

\* C8 witness: nextTrack was called at the end of a one-track queue that is
\* playing past position 0
C8_Witness ==
    /\ lastOp = "nextTrack"
    /\ ~repeatMode
    /\ Len(tracks) = 1
    /\ currentTrackIndex = 0
    /\ isPlaying
    /\ ~audioPaused
    /\ audioTime > 0

\* C10: with shuffleMode on, playTrack(track, list) and playTrackAtIndex(i,
\* list) make the queue a permutation of list with the selected track at
\* index 0 and currentTrackIndex 0, for any non-empty list and any selected
\* track or index.
C10_ShuffledSelectIsPermutation ==
    [][\A trackList \in TrackLists \ {<<>>} :
        /\ \A index \in IndexesUpTo(NumTracks) :
            (/\ shuffleMode
             /\ \E r \in RandomChoices(Len(FilterIndex(trackList, index))) :
                    playTrackAtIndex(index, trackList, r, TRUE)) =>
                /\ SameTracks(tracks', trackList)
                /\ currentTrackIndex' = 0
        /\ \A track \in TrackIds :
            (/\ shuffleMode
             /\ \E r \in RandomChoices(Len(FilterId(trackList, track))) :
                    playTrack(track, TRUE, trackList, r, TRUE)) =>
                /\ SameTracks(tracks', trackList)
                /\ At(tracks', 0) = track
                /\ currentTrackIndex' = 0]_vars

\* C11: playTrack(track, []) and playTrackAtIndex(i, []) are rejected: the
\* queue, currentTrackIndex, originalTracks and isPlaying are left exactly as
\* they were before the call.
C11_EmptyListRejected ==
    [][(\E fresh \in BOOLEAN :
            \/ \E track \in TrackIds : playTrack(track, TRUE, <<>>, <<>>, fresh)
            \/ \E index \in IndexesUpTo(NumTracks) :
                   playTrackAtIndex(index, <<>>, <<>>, fresh)) =>
            UNCHANGED <<tracks, currentTrackIndex, originalTracks, isPlaying>>]_vars

\* C12: loading a snapshot whose currentTrackIndex lies beyond its non-empty
\* track list does not fail and leaves currentTrackIndex at the last index of
\* the list, so that the restored state has a defined current track.
C12_LoadClampsIndex ==
    [][(/\ lastOp = "render"
        /\ lastOp' = "mount"
        /\ loadApplies(storage)
        /\ storage.currentTrackIndex >= Len(storage.tracks)) =>
            /\ ~crashed'
            /\ tracks' = storage.tracks
            /\ currentTrackIndex' = Len(storage.tracks) - 1
            /\ At(tracks', currentTrackIndex') # Undef]_vars

\* C13: when the stored item is absent, cannot be parsed, or holds no
\* non-empty track list, mounting raises no error and leaves the controller
\* at its defaults (empty queue, index 0, volume 0.5, shuffle off, repeat
\* off, saved position 0): no field of such an item is applied.
C13_NoSnapshotKeepsDefaults ==
    [][(/\ lastOp = "render"
        /\ lastOp' = "mount"
        /\ \/ storage.kind # "snapshot"
           \/ Len(storage.tracks) = 0) =>
            /\ ~crashed'
            /\ tracks' = <<>>
            /\ originalTracks' = <<>>
            /\ currentTrackIndex' = 0
            /\ volume' = DefaultVolume
            /\ audioVolume' = DefaultVolume
            /\ ~shuffleMode'
            /\ ~repeatMode'
            /\ ~endedRepeat'
            /\ savedTimeRef' = 0
            /\ ~isPlaying'
            /\ audioSrc' = NoSrc
            /\ storage' = storage]_vars

\* C13 witness: the provider mounted over a stored object without tracks
\* whose other fields differ from the defaults, and none of them was applied
C13_Witness ==
    /\ lastOp = "mount"
    /\ storage.kind = "snapshot"
    /\ Len(storage.tracks) = 0
    /\ storage.shuffleMode
    /\ storage.repeatMode
    /\ storage.volume # DefaultVolume
    /\ storage.currentTrackIndex # 0
    /\ ~shuffleMode
    /\ volume = DefaultVolume

\* the projection of the current state that the save effect writes
Projection ==
    Snapshot(tracks, originalTracks, currentTrackIndex, volume, currentTime,
             shuffleMode, repeatMode)

\* C14: once a snapshot has been written, after every transition the stored
\* snapshot equals the projection {tracks: originalTracks if non-empty else
\* tracks, currentTrackIndex, volume, currentTime, shuffleMode, repeatMode}
\* of the new state; no transition, emptying the queue included, leaves the
\* snapshot of an earlier state in storage.
C14_SnapshotFollowsState ==
    [][(storage.kind = "snapshot" /\ ~crashed') => storage' = Projection']_vars

\* C15: after setVolume(v) the controller volume and the volume written to
\* the audio element are max(0, min(1, v)) (here in hundredths), and the
\* call raises no error.
C15_SetVolumeClamps ==
    [][\A value \in VolumeInputs :
        setVolume(value) =>
            /\ volume' = Clamp(value, 0, 100)
            /\ audioVolume' = Clamp(value, 0, 100)
            /\ ~crashed']_vars

\* C16: seekTo(t) sets the controller's currentTime and the position of the
\* audio element to t clamped into [0, duration]; when duration is 0 it
\* changes neither; so 0 <= currentTime <= duration holds after any seek.
C16_SeekClamps ==
    [][\A time \in SeekTimes :
        seekTo(time) =>
            /\ IF duration = 0
               THEN UNCHANGED <<currentTime, audioTime>>
               ELSE /\ currentTime' = Clamp(time, 0, duration)
                    /\ audioTime' = Clamp(time, 0, duration)
            /\ currentTime' >= 0
            /\ currentTime' <= duration']_vars

\* C17: togglePlayPause has no effect when the queue is empty (isPlaying
\* keeps its value); on a non-empty queue it flips isPlaying and changes
\* neither the queue, the index, shuffleMode nor repeatMode.
C17_ToggleNeedsQueue ==
    [][lastOp' = "togglePlayPause" =>
            /\ isPlaying' = (IF Len(tracks) = 0 THEN isPlaying ELSE ~isPlaying)
            /\ UNCHANGED <<tracks, originalTracks, currentTrackIndex,
                           shuffleMode, repeatMode>>]_vars

\* C18: when the audio element rejects a play() attempt (here: the source
\* fails to load while a play() is pending), isPlaying is reverted to false
\* and the queue and currentTrackIndex stay unchanged.
C18_RejectedPlayReverts ==
    [][(lastOp' = "loadFailed" /\ ~audioPaused) =>
            /\ ~isPlaying'
            /\ UNCHANGED <<tracks, originalTracks, currentTrackIndex>>]_vars

\* C19: playTrack(track) without a track list, for a track of the existing
\* queue, selects it there: the queue keeps its contents and order, the track
\* becomes the current one, and shuffleMode and repeatMode are untouched.
C19_PlayTrackKeepsQueue ==
    [][\A track \in TrackIds :
        (/\ FindIndex(tracks, track) >= 0
         /\ \E fresh \in BOOLEAN : playTrack(track, FALSE, <<>>, <<>>, fresh)) =>
            /\ tracks' = tracks
            /\ At(tracks', currentTrackIndex') = track
            /\ UNCHANGED <<shuffleMode, repeatMode>>]_vars

\* C20: when the queue or index changes and the current track's locator
\* equals the one already bound to the audio element (toggling shuffle keeps
\* the same track current), the element is not reloaded: its source, its
\* readiness and its position are untouched, no metadata listener is added,
\* and only play / pause is applied according to isPlaying.
C20_SameLocatorNoReload ==
    [][(/\ lastOp' \in {"shuffleOn", "shuffleOff", "playTrackAtIndex"}
        /\ ~crashed'
        /\ audioSrc # NoSrc
        /\ InRange(tracks', currentTrackIndex')
        /\ At(tracks', currentTrackIndex') = audioSrc) =>
            /\ audioSrc' = audioSrc
            /\ audioReady' = audioReady
            /\ audioTime' = audioTime
            /\ onceListeners' = onceListeners
            /\ audioPaused' = ~isPlaying']_vars

\* the position playback is at, or will resume at once the pending load has
\* its metadata
PositionInEffect == IF audioReady THEN audioTime ELSE savedTimeRef

\* C21: when toggleShuffleMode rebuilds the queue and the current track stays
\* the track bound to the audio element, the position in effect before the
\* toggle is the one applied at loadedmetadata; when nextTrack, prevTrack or
\* a selection makes a track with a different locator current, the position
\* applied at loadedmetadata is 0.
C21_PositionAcrossReload ==
    [][/\ (/\ lastOp' \in {"shuffleOn", "shuffleOff"}
           /\ ~crashed'
           /\ ~(shuffleMode /\ Len(originalTracks) = 0)
           /\ audioSrc # NoSrc
           /\ InRange(tracks', currentTrackIndex')
           /\ At(tracks', currentTrackIndex') = audioSrc) =>
               savedTimeRef' = PositionInEffect
       /\ (/\ lastOp' \in {"nextTrack", "prevTrack", "playTrack",
                           "playTrackAtIndex"}
           /\ InRange(tracks', currentTrackIndex')
           /\ At(tracks', currentTrackIndex') \notin {Undef, audioSrc}) =>
               savedTimeRef' = 0
       /\ (lastOp' = "loadedmetadata" /\ Pending(onceListeners) > 0) =>
               audioTime' = savedTimeRef]_vars

\* C22: disabling shuffle with a non-empty originalTracks and a defined
\* current track sets the queue to originalTracks; currentTrackIndex becomes
\* the position of the current track's id in originalTracks when it is found
\* there, and 0 when it is not.
C22_DisableShuffleFallback ==
    [][(/\ lastOp' = "shuffleOff"
        /\ Len(originalTracks) > 0
        /\ At(tracks, currentTrackIndex) # Undef) =>
            /\ ~crashed'
            /\ ~shuffleMode'
            /\ tracks' = originalTracks
            /\ IF \E k \in 1..Len(originalTracks) :
                      originalTracks[k] = At(tracks, currentTrackIndex)
               THEN At(tracks', currentTrackIndex') = At(tracks, currentTrackIndex)
               ELSE currentTrackIndex' = 0]_vars

\* C22 witness: shuffle was enabled and disabled again on a track that is
\* not in originalTracks, and the queue is the two-track originalTracks at
\* index 0
C22_Witness ==
    /\ lastOp = "shuffleOff"
    /\ shufflePre.valid
    /\ InRange(shufflePre.q, shufflePre.i)
    /\ FindIndex(originalTracks, At(shufflePre.q, shufflePre.i)) = -1
    /\ Len(originalTracks) = 2
    /\ tracks = originalTracks
    /\ currentTrackIndex = 0

\* C23: in useTracks a failed fetch (a response that is not ok, or a thrown
\* error) ends with isLoading false and error set, and issues no new
\* request; an empty catalog response ends with isLoading false and an error
\* that no failed fetch produces; tracks are left as they were, so empty
\* tracks stay empty.
C23_FetchFailureSurfaced ==
    [][\A req \in NameSets :
        /\ \A err \in Failures :
            FetchFails(req, err) =>
                /\ ~hookIsLoading'
                /\ hookError' \notin {NoError, NoTracksFound}
                /\ hookTracks' = hookTracks
                /\ inFlight' \subseteq inFlight
        /\ FetchSucceeds(req, <<>>) =>
                /\ ~hookIsLoading'
                /\ hookError' = NoTracksFound
                /\ hookError' \notin {errorMessage(err) : err \in Failures}
                /\ hookTracks' = hookTracks
                /\ inFlight' \subseteq inFlight]_vars

\* C23 witness: the only fetch failed, nothing is loading or in flight, the
\* error of the response that was not ok is shown and tracks are empty
C23_Witness ==
    /\ inFlight = {}
    /\ ~hookIsLoading
    /\ hookError = "Failed to fetch tracks: 500"
    /\ hookTracks = <<>>

\* C24: processing an ended event on a non-empty queue with a valid index
\* never leaves currentTrackIndex outside [0, tracks.length - 1], also when
\* the queue was replaced or the index moved after the ended handler was
\* registered.
C24_EndedStaysInRange ==
    [][(lastOp' = "ended" /\ InRange(tracks, currentTrackIndex)) =>
            InRange(tracks', currentTrackIndex')]_vars

\* C25: when loadedmetadata is processed for a newly loaded track, the audio
\* element is started iff isPlaying is true at that moment; after a pause
\* between the selection and loadedmetadata it is not started.
C25_MetadataStartsIffPlaying ==
    [][lastOp' = "loadedmetadata" => (~audioPaused' <=> isPlaying)]_vars

\* C26: changing the current track several times before loadedmetadata
\* arrives does not accumulate pending loadedmetadata handlers: at most one
\* is pending at any time.
C26_OnePendingMetadataHandler == Pending(onceListeners) <= 1

\* C27: when a snapshot with currentTime t > 0 and a defined current track
\* is loaded at mount, t is the position that is applied to the audio element
\* at loadedmetadata for the restored track (savedTimeRef holds t once the
\* mount effects have run).
C27_LoadedPositionResumed ==
    [][(/\ lastOp = "render"
        /\ lastOp' = "mount"
        /\ loadApplies(storage)
        /\ storage.currentTime > 0
        /\ At(storage.tracks, storage.currentTrackIndex) # Undef) =>
            /\ audioSrc' = At(storage.tracks, storage.currentTrackIndex)
            /\ Pending(onceListeners') = 1
            /\ savedTimeRef' = storage.currentTime]_vars

\* C28: when the current track changes to a track with a different locator,
\* duration is 0 from that change on until the loadedmetadata of the new
\* track: the previous track's duration is not retained while it loads.
C28_DurationZeroWhileLoading ==
    [][/\ (/\ lastOp' \in {"nextTrack", "prevTrack", "playTrack",
                           "playTrackAtIndex", "ended"}
           /\ InRange(tracks', currentTrackIndex')
           /\ At(tracks', currentTrackIndex') \notin {Undef, audioSrc}) =>
               duration' = 0
       /\ (lastOp' # "loadedmetadata" /\ duration = 0) => duration' = 0]_vars

\* C29: a provider mounted from the snapshot written for a state with a
\* non-empty queue and a current track (shuffle on or off) has as its current
\* track the track that was current when the snapshot was written. The case
\* stated is the one where the snapshot holds exactly the tracks of the queue.
C29_RoundTripKeepsCurrentTrack ==
    (/\ lastOp = "mount"
     /\ ~crashed
     /\ shufflePre.valid
     /\ InRange(shufflePre.q, shufflePre.i)
     /\ Len(storage.tracks) = Len(shufflePre.q)
     /\ SameTracks(storage.tracks, shufflePre.q)) =>
        /\ InRange(tracks, currentTrackIndex)
        /\ At(tracks, currentTrackIndex) = At(shufflePre.q, shufflePre.i)

\* C30: a provider mounted from a snapshot holding a volume in [0,1] (here
\* 0..100 hundredths), 0 included, has exactly that volume, in its state and
\* on the audio element.
C30_RoundTripKeepsVolume ==
    [][(/\ lastOp = "render"
        /\ lastOp' = "mount"
        /\ loadApplies(storage)
        /\ storage.volume \in 0..100) =>
            /\ volume' = storage.volume
            /\ audioVolume' = storage.volume]_vars

\* C31: toggleShuffleMode never changes the number of tracks in the queue;
\* called on an empty queue it leaves the queue empty, in both directions.
C31_ToggleKeepsQueueLength ==
    [][(lastOp' \in {"shuffleOn", "shuffleOff"} /\ ~crashed') =>
            Len(tracks') = Len(tracks)]_vars

\* C32: after playTrack(track, list) or playTrackAtIndex(i, list) with a
\* non-empty list, in either shuffle mode and for any track and any index
\* argument, the current track tracks[currentTrackIndex] is defined and is
\* the selected track (track, or list[i]).
C32_SelectedTrackIsCurrent ==
    [][/\ \A track \in TrackIds, trackList \in TrackLists \ {<<>>} :
          \A r \in (IF shuffleMode
                     THEN RandomChoices(Len(FilterId(trackList, track)))
                     ELSE {<<>>}),
             fresh \in BOOLEAN :
              playTrack(track, TRUE, trackList, r, fresh) =>
                  /\ InRange(tracks', currentTrackIndex')
                  /\ At(tracks', currentTrackIndex') = track
       /\ \A index \in IndexesUpTo(NumTracks), trackList \in TrackLists \ {<<>>} :
          \A r \in (IF shuffleMode
                     THEN RandomChoices(Len(FilterIndex(trackList, index)))
                     ELSE {<<>>}),
             fresh \in BOOLEAN :
              playTrackAtIndex(index, trackList, r, fresh) =>
                  /\ InRange(tracks', currentTrackIndex')
                  /\ At(tracks', currentTrackIndex') # Undef
                  /\ InRange(trackList, index) =>
                         At(tracks', currentTrackIndex') = At(trackList, index)]_vars

\* C33: through the bottom player's controls the repeat wrap is reachable:
\* with repeatMode on and the player idle, at the last index the next control
\* can be activated and moves currentTrackIndex to 0, and at index 0 the
\* previous control can be activated and moves it to tracks.length - 1.
C33_WrapReachableFromControls ==
    (/\ PlayerRendered
     /\ repeatMode
     /\ ~isButtonDisabled
     /\ Len(tracks) > 1) =>
        /\ currentTrackIndex = Len(tracks) - 1 =>
               ENABLED (handleNextTrack /\ currentTrackIndex' = 0)
        /\ currentTrackIndex = 0 =>
               ENABLED (handlePrevTrack /\ currentTrackIndex' = Len(tracks) - 1)

\* C34: in useTracks, once a fetch succeeds with a non-empty list, error is
\* null: an error set by an earlier failed or empty fetch does not persist
\* beside the loaded tracks. The case stated is the one without overlapping
\* requests: the fetch that succeeds is the only one in flight and is the
\* one for the current names.
C34_SuccessClearsError ==
    [][\A req \in NameSets : \A data \in Responses(req) :
        (/\ Len(data) > 0
         /\ req = hookNames
         /\ inFlight = {req}
         /\ FetchSucceeds(req, data)) =>
            hookError' = NoError]_vars

\* C35: in useTracks, when the names change while an earlier fetch is in
\* flight, a late response to the older request never overwrites the newer
\* one: once the fetch for the current names has settled, the response to a
\* request for other names leaves tracks as it is.
C35_LateResponseIgnored ==
    [][\A req \in NameSets : \A data \in Responses(req) :
        (/\ req # hookNames
         /\ hookNames \notin inFlight
         /\ FetchSucceeds(req, data)) =>
            hookTracks' = hookTracks]_vars

\* C36: AuthGuard renders its children only when the onboarding check has
\* succeeded for the current path: never while initialization or a check is
\* pending, never after the check threw, never while onboarding is
\* incomplete on a path other than /onboarding.
C36_ChildrenOnlyAfterCheck ==
    ChildrenRendered =>
        /\ ~isInitializing
        /\ checksPending = {}
        /\ lastCheck = [path |-> pathname, outcome |-> "resolved"]
        /\ onboardingCompleted \/ pathname = "/onboarding"

====
